---- MODULE Spec2Model ----
(***************************************************************************)
(* Model of ttlswisscache (src/ttlcache.go): a TTL cache over a sharded    *)
(* concurrent map, with a background cleaner goroutine driven by a ticker. *)
(*                                                                         *)
(* Caller goroutines run Get / Set / Delete / Clear / Close.  Set is two   *)
(* steps (the clock read that computes the deadline, then the Store);      *)
(* Clear and Close clear the map one shard at a time, as the map does.     *)
(* The cleaner goroutine is modelled statement by statement: NewTicker,    *)
(* the select, and inside cleanup the clock read, Count (shard by shard),  *)
(* Range (shard by shard) and the loop of Deletes.                         *)
(***************************************************************************)
EXTENDS Integers, Sequences, FiniteSets, TLC

\* ---- bounds of the model ----
MaxKey == 1          \* keys are 0..MaxKey (uint64 in the code)
NumShards == 2       \* shards of the map in the model
NumCallers == 2      \* caller goroutines
MaxTime == 4         \* the clock runs 0..MaxTime
MaxTTL == 1          \* ttl arguments are 0..MaxTTL
MaxRes == 2          \* the resolution argument is 0 or MaxRes
MaxOps == 2          \* mutating calls (Set, Delete, Clear, Close) started in a run
IntBits == 4         \* width of the signed integers of the model (int64 in the code)

Keys == 0..MaxKey
Shards == 0..(NumShards - 1)
Callers == 1..NumCallers
Values == 1..MaxOps   \* values are opaque to the cache: the n-th call passes value n; 0 is nil
TTLs == 0..MaxTTL
Resolutions == {0, MaxRes}

\* math.MaxInt64 at the width of the model
MaxInt == 2^(IntBits - 1) - 1

\* every positive time.Duration
WideTTLs == 1..MaxInt

VARIABLES
    now,         \* time.Now().UnixNano()
    resolution,  \* the argument of New
    items,       \* c.items: the map, a function from the keys present to items
    done,        \* c.done is closed
    panicked,    \* "none", or the run-time panic that ended the process
    tick,        \* ticker.C holds a tick (the channel has capacity 1)
    nextTick,    \* when the ticker fires next
    spc,         \* where the cleaner goroutine is
    snow,        \* cleanup: now
    cnt,         \* cleanup: the running sum inside c.items.Count()
    sidx,        \* cleanup: the next shard Count / Range visits
    k,           \* cleanup: k
    i,           \* cleanup: i
    j,           \* cleanup: the position of the range-over-k loop (1-based)
    cpc,         \* per caller: the call in progress
    ret,         \* what the step just taken returned to its caller, if it was a return
    ops,         \* number of mutating calls started
    last,        \* history: per key, the last caller write that took effect
    observed,    \* history: keys the current pass's scan saw with deadline < now
    mustGo,      \* history: keys present and expired when the pass read the clock
    cleared,     \* history: some Clear has returned
    clearedQuiet, \* history: a Clear returned and no Store took effect since it began
    closedQuiet  \* history: Close returned and no Store took effect since it began

vars == <<now, resolution, items, done, panicked, tick, nextTick, spc, snow, cnt,
          sidx, k, i, j, cpc, ret, ops, last, observed, mustGo, cleared,
          clearedQuiet, closedQuiet>>

sweeperVars == <<spc, snow, cnt, sidx, k, i, j>>
histVars == <<last, observed, mustGo, cleared, clearedQuiet, closedQuiet>>

\* ---- data ----

\* type item struct { deadline int64; value interface{} }
item(deadline, value) == [deadline |-> deadline, value |-> value]

\* The shard of a key: a stable hash of the key modulo the shard count.
ShardOf(key) == key % NumShards

KeysOfShard(s) == {key \in DOMAIN items : ShardOf(key) = s}

\* csmap Load
Load(m, key) ==
    IF key \in DOMAIN m THEN [value |-> m[key], ok |-> TRUE]
    ELSE [value |-> item(0, 0), ok |-> FALSE]

\* A Store that drops the entries of the other keys.
StoreClobber(m, key, it) == [x \in {key} |-> it]

\* csmap Store: insert or overwrite
Store(m, key, it) == [x \in (DOMAIN m) \cup {key} |-> IF x = key THEN it ELSE m[x]]

\* A Delete that removes nothing.
MapDeleteNoop(m, key) == m

\* csmap Delete: remove if present
MapDelete(m, key) == [x \in (DOMAIN m) \ {key} |-> m[x]]

\* A Clear whose loop over the shards stops after the first one.
ClearShardOfFirst(m, s) ==
    IF s = 0 THEN [x \in {y \in DOMAIN m : ShardOf(y) # s} |-> m[x]] ELSE m

\* one shard's part of csmap Clear
ClearShardOf(m, s) == [x \in {y \in DOMAIN m : ShardOf(y) # s} |-> m[x]]

\* one shard's part of csmap Count
ShardCount(m, s) == Cardinality({x \in DOMAIN m : ShardOf(x) = s})

EmptyMap == [x \in {} |-> item(0, 0)]

Idle == [op |-> "idle", key |-> 0, value |-> 0, deadline |-> 0, ttl |-> 0,
         shard |-> 0, quiet |-> FALSE, ac |-> FALSE]

NoRet == [op |-> "none", key |-> 0, value |-> 0, found |-> FALSE]

\* A history entry: the write (set, delete, clear, close), for a set the item,
\* its ttl, the time of the Store, whether a Clear had returned when the Set
\* was called and the value of the item the Store replaced (0: none); for a
\* delete, clear or close the value of the item it removed.
NoWrite == [op |-> "none", value |-> 0, deadline |-> 0, ttl |-> 0, at |-> 0,
            ac |-> FALSE, over |-> 0]

Alive == panicked = "none"

\* ---- New ----
Init ==
    /\ now = 0
    /\ resolution \in Resolutions
    /\ items = EmptyMap
    /\ done = FALSE
    /\ panicked = "none"
    /\ tick = FALSE
    /\ nextTick = 0
    /\ spc = "start"
    /\ snow = 0
    /\ cnt = 0
    /\ sidx = 0
    /\ k = <<>>
    /\ i = 0
    /\ j = 0
    /\ cpc = [c \in Callers |-> Idle]
    /\ ret = NoRet
    /\ ops = 0
    /\ last = [key \in Keys |-> NoWrite]
    /\ observed = {}
    /\ mustGo = {}
    /\ cleared = FALSE
    /\ clearedQuiet = FALSE
    /\ closedQuiet = FALSE

\* ---- the clock and the ticker ----

TickerRunning == spc \notin {"start", "stopped"}

\* Time passes.  A running ticker fires every `resolution`; its channel holds
\* one tick, and a tick that finds the channel full is dropped.
Advance ==
    /\ Alive
    /\ now < MaxTime
    /\ now' = now + 1
    /\ IF TickerRunning /\ now + 1 = nextTick
       THEN tick' = TRUE /\ nextTick' = nextTick + resolution
       ELSE UNCHANGED <<tick, nextTick>>
    /\ UNCHANGED <<resolution, items, done, panicked, cpc, ops>>
    /\ ret' = NoRet
    /\ UNCHANGED sweeperVars
    /\ UNCHANGED histVars

\* ---- Get ----

\* A Get that treats an item past its deadline as absent.
GetResultEager(m, key) ==
    LET r == Load(m, key) IN
    IF ~r.ok \/ r.value.deadline < now
    THEN [op |-> "get", key |-> key, value |-> 0, found |-> FALSE]
    ELSE [op |-> "get", key |-> key, value |-> r.value.value, found |-> TRUE]

GetResult(m, key) ==
    LET r == Load(m, key) IN
    IF ~r.ok THEN [op |-> "get", key |-> key, value |-> 0, found |-> FALSE]
    ELSE [op |-> "get", key |-> key, value |-> r.value.value, found |-> TRUE]

Get(c, key) ==
    /\ Alive
    /\ cpc[c].op = "idle"
    /\ ret' = GetResult(items, key)
    /\ UNCHANGED <<now, resolution, items, done, panicked, tick, nextTick, cpc, ops>>
    /\ UNCHANGED sweeperVars
    /\ UNCHANGED histVars

\* ---- Set ----

\* Signed addition at the width of the model: the sum wraps around, as the
\* sum of two int64 does.
Wrap(x) == ((x + 2^(IntBits - 1)) % 2^IntBits) - 2^(IntBits - 1)

\* time.Now().UnixNano() + int64(ttl)
Deadline(n, ttl) == Wrap(n + ttl)

\* The first half of Set: the item is built from the clock.
SetRead(c, key, ttl) ==
    /\ Alive
    /\ cpc[c].op = "idle"
    /\ ops < MaxOps
    /\ ops' = ops + 1
    /\ cpc' = [cpc EXCEPT ![c] = [Idle EXCEPT !.op = "set", !.key = key,
                                   !.value = ops + 1, !.ttl = ttl,
                                   !.deadline = Deadline(now, ttl),
                                   !.ac = cleared]]
    /\ UNCHANGED <<now, resolution, items, done, panicked, tick, nextTick>>
    /\ ret' = NoRet
    /\ UNCHANGED sweeperVars
    /\ UNCHANGED histVars

\* A Store taking effect makes every Clear or Close in progress one that ran
\* concurrently with a Set.
Disturb(p) == [c \in Callers |-> IF p[c].op \in {"clear", "close"}
                                 THEN [p[c] EXCEPT !.quiet = FALSE]
                                 ELSE p[c]]

\* The second half of Set: c.items.Store(key, cacheItem).
SetStore(c) ==
    /\ Alive
    /\ cpc[c].op = "set"
    /\ items' = Store(items, cpc[c].key, item(cpc[c].deadline, cpc[c].value))
    /\ cpc' = [Disturb(cpc) EXCEPT ![c] = Idle]
    /\ last' = [last EXCEPT ![cpc[c].key] =
                  [op |-> "set", value |-> cpc[c].value, deadline |-> cpc[c].deadline,
                   ttl |-> cpc[c].ttl, at |-> now, ac |-> cpc[c].ac,
                   over |-> Load(items, cpc[c].key).value.value]]
    /\ mustGo' = mustGo \ {cpc[c].key}
    /\ clearedQuiet' = FALSE
    /\ closedQuiet' = FALSE
    /\ UNCHANGED <<now, resolution, done, panicked, tick, nextTick, ops>>
    /\ ret' = NoRet
    /\ UNCHANGED sweeperVars
    /\ UNCHANGED <<observed, cleared>>

\* ---- Delete ----

Delete(c, key) ==
    /\ Alive
    /\ cpc[c].op = "idle"
    /\ ops < MaxOps
    /\ ops' = ops + 1
    /\ items' = MapDelete(items, key)
    /\ last' = [last EXCEPT ![key] = [NoWrite EXCEPT !.op = "delete",
                                              !.value = Load(items, key).value.value]]
    /\ UNCHANGED <<now, resolution, done, panicked, tick, nextTick, cpc>>
    /\ ret' = NoRet
    /\ UNCHANGED sweeperVars
    /\ UNCHANGED <<observed, mustGo, cleared, clearedQuiet, closedQuiet>>

\* ---- Clear ----

\* The history after shard s was cleared by `op`.
Wiped(s, op) == [key \in Keys |-> IF ShardOf(key) = s
                                  THEN [NoWrite EXCEPT !.op = op,
                                                       !.value = Load(items, key).value.value]
                                  ELSE last[key]]

\* A Clear that also fires the close signal, as Close does.
ClearStepCloses(c, s, q) ==
    /\ items' = ClearShardOf(items, s)
    /\ last' = Wiped(s, "clear")
    /\ done' = TRUE
    /\ IF s + 1 = NumShards
       THEN /\ cpc' = [cpc EXCEPT ![c] = Idle]
            /\ cleared' = TRUE
            /\ clearedQuiet' = (clearedQuiet \/ q)
       ELSE /\ cpc' = [cpc EXCEPT ![c] = [Idle EXCEPT !.op = "clear", !.shard = s + 1,
                                           !.quiet = q]]
            /\ UNCHANGED <<cleared, clearedQuiet>>
    /\ UNCHANGED <<now, resolution, panicked, tick, nextTick>>
    /\ ret' = NoRet
    /\ UNCHANGED sweeperVars
    /\ UNCHANGED <<observed, mustGo, closedQuiet>>

\* c.items.Clear() locks and clears one shard after the other.  This is the
\* step on shard s of the Clear that caller c runs with flag q.
ClearStep(c, s, q) ==
    /\ items' = ClearShardOf(items, s)
    /\ last' = Wiped(s, "clear")
    /\ IF s + 1 = NumShards
       THEN /\ cpc' = [cpc EXCEPT ![c] = Idle]
            /\ cleared' = TRUE
            /\ clearedQuiet' = (clearedQuiet \/ q)
       ELSE /\ cpc' = [cpc EXCEPT ![c] = [Idle EXCEPT !.op = "clear", !.shard = s + 1,
                                           !.quiet = q]]
            /\ UNCHANGED <<cleared, clearedQuiet>>
    /\ UNCHANGED <<now, resolution, done, panicked, tick, nextTick>>
    /\ ret' = NoRet
    /\ UNCHANGED sweeperVars
    /\ UNCHANGED <<observed, mustGo, closedQuiet>>

Clear(c) ==
    /\ Alive
    /\ cpc[c].op = "idle"
    /\ ops < MaxOps
    /\ ops' = ops + 1
    /\ ClearStep(c, 0, TRUE)

ClearNext(c) ==
    /\ Alive
    /\ cpc[c].op = "clear"
    /\ UNCHANGED ops
    /\ ClearStep(c, cpc[c].shard, cpc[c].quiet)

\* ---- Close ----

\* A Close that clears the store without firing the close signal.
CloseNoSignal(c) ==
    /\ Alive
    /\ cpc[c].op = "idle"
    /\ ops < MaxOps
    /\ ops' = ops + 1
    /\ cpc' = [cpc EXCEPT ![c] = [Idle EXCEPT !.op = "close", !.quiet = TRUE]]
    /\ UNCHANGED <<now, resolution, items, done, panicked, tick, nextTick>>
    /\ ret' = NoRet
    /\ UNCHANGED sweeperVars
    /\ UNCHANGED histVars

\* close(c.done): closing a closed channel panics.
Close(c) ==
    /\ Alive
    /\ cpc[c].op = "idle"
    /\ ops < MaxOps
    /\ ops' = ops + 1
    /\ IF done
       THEN /\ panicked' = "close of closed channel"
            /\ UNCHANGED <<done, cpc>>
       ELSE /\ done' = TRUE
            /\ cpc' = [cpc EXCEPT ![c] = [Idle EXCEPT !.op = "close", !.quiet = TRUE]]
            /\ UNCHANGED panicked
    /\ UNCHANGED <<now, resolution, items, tick, nextTick>>
    /\ ret' = NoRet
    /\ UNCHANGED sweeperVars
    /\ UNCHANGED histVars

\* A Close that holds its return back while the cleaner is inside cleanup.
CloseClearWaits(c) ==
    /\ Alive
    /\ cpc[c].op = "close"
    /\ cpc[c].shard + 1 = NumShards => spc \in {"start", "select", "stopped"}
    /\ items' = ClearShardOf(items, cpc[c].shard)
    /\ last' = Wiped(cpc[c].shard, "close")
    /\ IF cpc[c].shard + 1 = NumShards
       THEN /\ cpc' = [cpc EXCEPT ![c] = Idle]
            /\ ret' = [NoRet EXCEPT !.op = "close"]
            /\ closedQuiet' = cpc[c].quiet
       ELSE /\ cpc' = [cpc EXCEPT ![c].shard = cpc[c].shard + 1]
            /\ ret' = NoRet
            /\ UNCHANGED closedQuiet
    /\ UNCHANGED <<now, resolution, done, panicked, tick, nextTick, ops>>
    /\ UNCHANGED sweeperVars
    /\ UNCHANGED <<observed, mustGo, cleared, clearedQuiet>>

\* c.items.Clear() inside Close, shard by shard, then return nil.
CloseClear(c) ==
    /\ Alive
    /\ cpc[c].op = "close"
    /\ items' = ClearShardOf(items, cpc[c].shard)
    /\ last' = Wiped(cpc[c].shard, "close")
    /\ IF cpc[c].shard + 1 = NumShards
       THEN /\ cpc' = [cpc EXCEPT ![c] = Idle]
            /\ ret' = [NoRet EXCEPT !.op = "close"]
            /\ closedQuiet' = cpc[c].quiet
       ELSE /\ cpc' = [cpc EXCEPT ![c].shard = cpc[c].shard + 1]
            /\ ret' = NoRet
            /\ UNCHANGED closedQuiet
    /\ UNCHANGED <<now, resolution, done, panicked, tick, nextTick, ops>>
    /\ UNCHANGED sweeperVars
    /\ UNCHANGED <<observed, mustGo, cleared, clearedQuiet>>

\* ---- cleaner and cleanup ----

\* go cleaner(c, resolution): time.NewTicker panics on a non-positive interval.
CleanerStart ==
    /\ Alive
    /\ spc = "start"
    /\ IF resolution <= 0
       THEN /\ panicked' = "non-positive interval for NewTicker"
            /\ UNCHANGED <<spc, nextTick>>
       ELSE /\ spc' = "select"
            /\ nextTick' = now + resolution
            /\ UNCHANGED panicked
    /\ UNCHANGED <<now, resolution, items, done, tick, cpc, ops>>
    /\ ret' = NoRet
    /\ UNCHANGED <<snow, cnt, sidx, k, i, j>>
    /\ UNCHANGED histVars

\* select, case <-ticker.C: the cleaner calls cleanup.
CleanerTick ==
    /\ Alive
    /\ spc = "select"
    /\ tick
    /\ tick' = FALSE
    /\ spc' = "cleanup"
    /\ UNCHANGED <<now, resolution, items, done, panicked, nextTick, cpc, ops>>
    /\ ret' = NoRet
    /\ UNCHANGED <<snow, cnt, sidx, k, i, j>>
    /\ UNCHANGED histVars

\* A cleaner whose done case runs cleanup instead of returning.
CleanerDoneSweeps ==
    /\ Alive
    /\ spc = "select"
    /\ done
    /\ spc' = "cleanup"
    /\ UNCHANGED <<now, resolution, items, done, panicked, tick, nextTick, cpc, ops>>
    /\ ret' = NoRet
    /\ UNCHANGED <<snow, cnt, sidx, k, i, j>>
    /\ UNCHANGED histVars

\* select, case <-c.done: ticker.Stop() and return.  When both cases are ready
\* the select takes either.
CleanerDone ==
    /\ Alive
    /\ spc = "select"
    /\ done
    /\ spc' = "stopped"
    /\ UNCHANGED <<now, resolution, items, done, panicked, tick, nextTick, cpc, ops>>
    /\ ret' = NoRet
    /\ UNCHANGED <<snow, cnt, sidx, k, i, j>>
    /\ UNCHANGED histVars

\* The comparison the wrong way round.
ExpiredFlipped(it, n) == it.deadline > n

\* if value.deadline < now
Expired(it, n) == it.deadline < n

\* now := time.Now().UnixNano()
CleanupNow ==
    /\ Alive
    /\ spc = "cleanup"
    /\ snow' = now
    /\ spc' = "count"
    /\ mustGo' = {key \in DOMAIN items : items[key].deadline < now}
    /\ observed' = {}
    /\ UNCHANGED <<now, resolution, items, done, panicked, tick, nextTick, cpc, ops>>
    /\ ret' = NoRet
    /\ UNCHANGED <<cnt, sidx, k, i, j>>
    /\ UNCHANGED <<last, cleared, clearedQuiet, closedQuiet>>

\* make([]uint64, n): n zeroes
MakeKeys(n) == [x \in 1..n |-> 0]

\* k := make([]uint64, c.items.Count()): Count adds up the shards one at a time.
CleanupCount ==
    /\ Alive
    /\ spc = "count"
    /\ LET n == cnt + ShardCount(items, sidx) IN
       IF sidx + 1 = NumShards
       THEN /\ k' = MakeKeys(n)
            /\ i' = 0
            /\ cnt' = 0
            /\ sidx' = 0
            /\ spc' = "range"
       ELSE /\ cnt' = n
            /\ sidx' = sidx + 1
            /\ UNCHANGED <<k, i, spc>>
    /\ UNCHANGED <<now, resolution, items, done, panicked, tick, nextTick, cpc, ops>>
    /\ ret' = NoRet
    /\ UNCHANGED <<snow, j>>
    /\ UNCHANGED histVars

\* The orders in which a shard's iteration can hand out the keys of S.
Orders(S) == {f \in [1..Cardinality(S) -> S] : \A a, b \in 1..Cardinality(S) :
                                                   f[a] = f[b] => a = b}

\* The keys of shard s that the callback of Range collects.
Collected(s) == {key \in KeysOfShard(s) : Expired(items[key], snow)}

\* k after the callback stored the keys of `order` at k[i], k[i+1], ...
Fill(order) == [x \in 1..Len(k) |-> IF x > i /\ x <= i + Len(order)
                                     THEN order[x - i] ELSE k[x]]

\* The cleaner returns from cleanup to the select.
BackToSelect ==
    /\ spc' = "select"
    /\ k' = <<>>
    /\ i' = 0
    /\ j' = 0
    /\ sidx' = 0

\* c.items.Range(...) on one shard: k[i] = key; i++ for every expired item.
\* Writing k[i] with i >= len(k) panics.
CleanupRange ==
    /\ Alive
    /\ spc = "range"
    /\ IF i + Cardinality(Collected(sidx)) > Len(k)
       THEN /\ panicked' = "index out of range"
            /\ UNCHANGED <<spc, k, i, j, sidx, observed>>
       ELSE /\ UNCHANGED panicked
            /\ observed' = observed \cup Collected(sidx)
            /\ \E order \in Orders(Collected(sidx)) :
                 IF sidx + 1 < NumShards
                 THEN /\ k' = Fill(order)
                      /\ i' = i + Len(order)
                      /\ sidx' = sidx + 1
                      /\ UNCHANGED <<spc, j>>
                 ELSE IF Len(k) = 0
                 THEN BackToSelect
                 ELSE /\ k' = Fill(order)
                      /\ i' = i + Len(order)
                      /\ sidx' = 0
                      /\ j' = 1
                      /\ spc' = "delete"
    /\ UNCHANGED <<now, resolution, items, done, tick, nextTick, cpc, ops>>
    /\ ret' = NoRet
    /\ UNCHANGED <<snow, cnt>>
    /\ UNCHANGED <<last, mustGo, cleared, clearedQuiet, closedQuiet>>

\* A delete loop that looks at the item again and keeps one that is no longer
\* expired.
CleanupDeleteChecked ==
    /\ Alive
    /\ spc = "delete"
    /\ items' = IF k[j] \in DOMAIN items /\ ~Expired(items[k[j]], snow)
                THEN items
                ELSE MapDelete(items, k[j])
    /\ IF j = Len(k)
       THEN BackToSelect
       ELSE /\ j' = j + 1
            /\ UNCHANGED <<spc, k, i, sidx>>
    /\ UNCHANGED <<now, resolution, done, panicked, tick, nextTick, cpc, ops>>
    /\ ret' = NoRet
    /\ UNCHANGED <<snow, cnt>>
    /\ UNCHANGED histVars

\* for _, d := range k { c.items.Delete(d) }: one iteration.
CleanupDelete ==
    /\ Alive
    /\ spc = "delete"
    /\ items' = MapDelete(items, k[j])
    /\ IF j = Len(k)
       THEN BackToSelect
       ELSE /\ j' = j + 1
            /\ UNCHANGED <<spc, k, i, sidx>>
    /\ UNCHANGED <<now, resolution, done, panicked, tick, nextTick, cpc, ops>>
    /\ ret' = NoRet
    /\ UNCHANGED <<snow, cnt>>
    /\ UNCHANGED histVars

\* ---- the system ----

Next ==
    \/ Advance
    \/ \E c \in Callers, key \in Keys : Get(c, key)
    \/ \E c \in Callers, key \in Keys, ttl \in TTLs : SetRead(c, key, ttl)
    \/ \E c \in Callers : SetStore(c)
    \/ \E c \in Callers, key \in Keys : Delete(c, key)
    \/ \E c \in Callers : Clear(c)
    \/ \E c \in Callers : ClearNext(c)
    \/ \E c \in Callers : Close(c)
    \/ \E c \in Callers : CloseClear(c)
    \/ CleanerStart
    \/ CleanerTick
    \/ CleanerDone
    \/ CleanupNow
    \/ CleanupCount
    \/ CleanupRange
    \/ CleanupDelete

Spec == Init /\ [][Next]_vars

\* The cleaner keeps up with its ticker: the clock does not move while the
\* cleaner goroutine has not yet created its ticker, has a tick waiting in the
\* channel, or is inside cleanup.
CleanerIdle == (spc = "select" /\ ~tick) \/ spc = "stopped"

AdvancePrompt ==
    /\ CleanerIdle
    /\ Advance

NextPrompt ==
    \/ AdvancePrompt
    \/ \E c \in Callers, key \in Keys : Get(c, key)
    \/ \E c \in Callers, key \in Keys, ttl \in TTLs : SetRead(c, key, ttl)
    \/ \E c \in Callers : SetStore(c)
    \/ \E c \in Callers, key \in Keys : Delete(c, key)
    \/ \E c \in Callers : Clear(c)
    \/ \E c \in Callers : ClearNext(c)
    \/ \E c \in Callers : Close(c)
    \/ \E c \in Callers : CloseClear(c)
    \/ CleanerStart
    \/ CleanerTick
    \/ CleanerDone
    \/ CleanupNow
    \/ CleanupCount
    \/ CleanupRange
    \/ CleanupDelete

\* The system under the timing assumption that every tick's pass is over
\* before the clock moves again.
SpecPrompt == Init /\ [][NextPrompt]_vars

\* The system with callers that Set only, the ttl of a Set being any positive
\* duration.
NextWrap ==
    \/ Advance
    \/ \E c \in Callers, key \in Keys, ttl \in WideTTLs : SetRead(c, key, ttl)
    \/ \E c \in Callers : SetStore(c)
    \/ CleanerStart
    \/ CleanerTick
    \/ CleanupNow
    \/ CleanupCount
    \/ CleanupRange
    \/ CleanupDelete

SpecWrap == Init /\ [][NextWrap]_vars

\* The system under fair scheduling of the cleaner goroutine: the scheduler
\* lets it take the step it is at, and the select, which picks at random among
\* the cases that are ready, takes the done case if it is ready again and again.
SpecFair ==
    /\ Init
    /\ [][Next]_vars
    /\ WF_vars(CleanerStart)
    /\ WF_vars(CleanupNow)
    /\ WF_vars(CleanupCount)
    /\ WF_vars(CleanupRange)
    /\ WF_vars(CleanupDelete)
    /\ SF_vars(CleanerDone)

\* ---- properties ----

\* The write last[key] is a Set with ttl > 0 that no Delete, Clear, Close or
\* other Set of the key has followed.
LiveSet(key) == last[key].op = "set" /\ last[key].ttl > 0

\* C1: a Get of key k that follows Set(k, v, t), t > 0, with no Delete(k),
\* Clear, Close or other Set(k) in between, and that happens before the
\* deadline, returns (v, true), whatever the cleaner does in between.
C1_SetThenGet ==
    (ret.op = "get" /\ LiveSet(ret.key) /\ now < last[ret.key].deadline)
        => (ret.found /\ ret.value = last[ret.key].value)

\* C2: no premature eviction: up to its deadline, the item of the last
\* Set(k, v, t), t > 0, not followed by a Delete(k), Clear, Close or other
\* Set(k), is in the store, with its value and its deadline.
C2_NoPrematureEviction ==
    \A key \in Keys :
        (LiveSet(key) /\ now <= last[key].deadline)
            => (key \in DOMAIN items
                /\ items[key] = item(last[key].deadline, last[key].value))

\* C4: a second Close never crashes the process.
C4_SecondCloseNoCrash == panicked # "close of closed channel"

\* C6: every key the pass is about to Delete, or will Delete later in its
\* loop, is a key whose item the scan of this pass saw with deadline < now;
\* and the scan collects no item with deadline >= now.
C6_DeletesOnlyObserved ==
    /\ spc = "delete" => \A x \in j..Len(k) : k[x] \in observed
    /\ spc \in {"range", "delete"} =>
          \A x \in 1..i : k[x] \in observed

\* The key is not in the store and Get does not find it.
Absent(key) == key \notin DOMAIN items /\ ~GetResult(items, key).found

\* The pass that ran last has returned (or none has begun).
PassOver == spc \notin {"count", "range", "delete"}

\* C3: an item that was in the store with deadline < now when a pass read the
\* clock, and that no Set stored again, is absent once that pass has returned;
\* and with resolution R > 0, after Set(k, v, R/2) took effect at time 0 and
\* nothing else wrote k, Get(k) at time 2R and later finds k absent while the
\* cache is not closed.
C3_BoundedExpiration ==
    /\ PassOver => \A key \in mustGo : Absent(key)
    /\ \A key \in Keys :
         (/\ resolution > 0
          /\ last[key].op = "set"
          /\ last[key].ttl = resolution \div 2
          /\ last[key].deadline = last[key].ttl
          /\ last[key].at = 0
          /\ now >= 2 * resolution
          /\ ~done) => Absent(key)

C3_Witness ==
    \E key \in mustGo :
        /\ resolution > 0
        /\ last[key].op = "set"
        /\ last[key].ttl = resolution \div 2
        /\ last[key].deadline = last[key].ttl
        /\ last[key].at = 0
        /\ now >= 2 * resolution
        /\ ~done
        /\ PassOver
        /\ Absent(key)

\* Close has returned: the signal is fired and no caller is inside Close.
CloseReturned == done /\ \A c \in Callers : cpc[c].op # "close"

\* A step of the cleaner that removes an item.
SweeperDeletes == spc = "delete" /\ (j' # j \/ spc' # spc) /\ items' # items

\* C5 as stated: once Close has returned no pass starts and no Delete of a
\* pass takes effect.
C5_CloseStopsEviction ==
    [][CloseReturned => (~(spc = "select" /\ spc' = "cleanup") /\ ~SweeperDeletes)]_vars

\* C5 as amended: the cleaner stops when its select takes the close signal,
\* which with no tick waiting is the only step it can take after Close; once
\* stopped it stays stopped, starts no pass and removes nothing, so every
\* change of the store is a caller's.
C5_StoppedStopsEviction ==
    [][/\ (spc = "select" /\ done /\ ~tick /\ spc' # spc) => spc' = "stopped"
       /\ spc = "stopped" =>
            (UNCHANGED sweeperVars
             /\ (items' # items => (cpc' # cpc \/ ops' # ops)))]_vars

\* The cleaner is stopped and an item past its deadline is still in the store.
C5_Witness ==
    /\ spc = "stopped"
    /\ CloseReturned
    /\ \E key \in DOMAIN items : Expired(items[key], now)

\* C7: after Delete(k), until a Set stores k again, k is absent and Get(k)
\* returns (nil, false); a Delete of an absent key leaves the store as it is.
C7_DeleteRemoves ==
    /\ [](\A key \in Keys : last[key].op = "delete" => Absent(key))
    /\ [][\A c \in Callers, key \in Keys :
            (Delete(c, key) /\ key \notin DOMAIN items) => items' = items]_vars

\* A Delete removed an item, and the key is absent.
C7_Witness ==
    \E key \in Keys : last[key].op = "delete" /\ last[key].value # 0 /\ Absent(key)

\* C8: once a Clear has returned, with no Store taking effect since that Clear
\* began, the store has no entry and Get finds no key.
C8_ClearEmpties ==
    clearedQuiet => (DOMAIN items = {} /\ \A key \in Keys : Absent(key))

\* A Clear that removed an item has returned.
C8_Witness ==
    /\ clearedQuiet
    /\ \E key \in Keys : last[key].op = "clear" /\ last[key].value # 0

\* C9: a step of Clear leaves the cleaner, its ticker and the close signal as
\* they are; and an item that a Set called after a Clear put in the store is
\* removed by the pass that finds it past its deadline.
C9_ClearLeavesSweeper ==
    /\ [][\A c \in Callers : (Clear(c) \/ ClearNext(c)) =>
             UNCHANGED <<done, tick, nextTick, spc, snow, cnt, sidx, k, i, j>>]_vars
    /\ []((cleared /\ PassOver) => \A key \in mustGo : Absent(key))

C9_Witness ==
    /\ cleared
    /\ ~done
    /\ spc = "select"
    /\ \E key \in mustGo : last[key].op = "set" /\ last[key].ac /\ Absent(key)

\* C10: Get returns (v, true) exactly when the key is in the store, whatever
\* the deadline of the item, and leaves the store as it is.
C10_LazyGet ==
    /\ [](ret.op = "get" =>
            /\ ret.found = (ret.key \in DOMAIN items)
            /\ ret.found => ret.value = items[ret.key].value
            /\ ~ret.found => ret.value = 0)
    /\ [][ret'.op = "get" => items' = items]_vars

\* A Get has just returned an item whose deadline has passed.
C10_Witness ==
    /\ ret.op = "get"
    /\ ret.found
    /\ items[ret.key].deadline < now


\* C11: once the close signal has fired the cleaner (of a cache made with a
\* resolution > 0, whose ticker exists) reaches Stopped; Stopped
\* is terminal; and the cleaner stops only from its select, so a pass that
\* was running when the signal fired has run to its end.
C11_SweeperTerminates ==
    /\ (done /\ resolution > 0) ~> (spc = "stopped")
    /\ [][spc = "stopped" => spc' = "stopped"]_vars
    /\ [][(spc # "stopped" /\ spc' = "stopped") => spc = "select"]_vars

\* C12: a Set with ttl <= 0 is rejected by the call (it builds and stores no
\* item), and a New with resolution <= 0 is rejected by the call (the failure
\* does not surface later in the cleaner goroutine).
C12_InvalidRejected ==
    /\ \A c \in Callers : cpc[c].op = "set" => cpc[c].ttl > 0
    /\ \A key \in Keys : last[key].op = "set" => last[key].ttl > 0
    /\ resolution <= 0 => panicked # "non-positive interval for NewTicker"

\* The entries of the keys other than `key` are the same before and after.
OthersKept(key) == \A x \in Keys \ {key} : Load(items', x) = Load(items, x)

DeleteStep == spc = "delete" /\ (j' # j \/ spc' # "delete")

\* C14: a key the scan of a pass collected is deleted by that pass whatever a
\* Set stored under it in between: a Store leaves the list of collected keys
\* and the cleaner's position alone, the delete loop leaves only after its last
\* slot, and each iteration leaves its key absent without looking at the item,
\* so a Get that follows finds nothing.
C14_ScanThenDelete ==
    /\ [](spc = "delete" => j \in 1..Len(k))
    /\ [][\A c \in Callers : SetStore(c) => UNCHANGED sweeperVars]_vars
    /\ [][DeleteStep => (k[j] \notin DOMAIN items' /\ ~GetResult(items', k[j]).found)]_vars
    /\ [][(DeleteStep /\ spc' # "delete") => j = Len(k)]_vars
    /\ [][(DeleteStep /\ spc' = "delete") => (j' = j + 1 /\ k' = k)]_vars

\* A key the scan collected, whose last Set gave it a deadline the pass would
\* not have collected, is gone after the pass, and a Get has just missed it.
C14_Witness ==
    \E key \in observed :
        /\ PassOver
        /\ last[key].op = "set"
        /\ ~Expired(item(last[key].deadline, last[key].value), snow)
        /\ Absent(key)
        /\ ret = GetResult(items, key)

\* The pass has scanned its first shard and has not finished deleting.
MidPass == (spc = "range" /\ sidx > 0) \/ spc = "delete"

\* C15: from the moment a pass has begun to scan until it has finished
\* deleting, no Get, Store of a Set, Delete or Clear of a caller takes effect.
C15_StopTheWorld ==
    [][MidPass => ~(\E c \in Callers :
                       \/ SetStore(c)
                       \/ Clear(c)
                       \/ ClearNext(c)
                       \/ \E key \in Keys : Get(c, key) \/ Delete(c, key))]_vars

\* C16: a Set on a key that holds an item replaces the whole item.  The Store
\* leaves under the key exactly the new value with the deadline (time of the
\* Set) + ttl; and a pass that began after the Store took effect evicts the
\* key only when the new deadline is before the pass's now.
C16_SetReplaces ==
    /\ [][\A c \in Callers : SetStore(c) =>
            Load(items', cpc[c].key)
                = [value |-> item(cpc[c].deadline, cpc[c].value), ok |-> TRUE]]_vars
    /\ [][\A c \in Callers, key \in Keys, ttl \in TTLs :
            SetRead(c, key, ttl) => cpc'[c].deadline = now + ttl]_vars
    /\ [][\A key \in DOMAIN items :
            (DeleteStep /\ k[j] = key /\ last[key].over # 0 /\ last[key].at < snow)
                => Expired(items[key], snow)]_vars

\* C17: the first Close fires the close signal before it clears the store and
\* returns nil after both; the cache goes from open to closed once, by a Close,
\* and never back; when no Store took effect since the Close began, the store
\* is empty when it returns and stays empty until a Store.
C17_CloseOnce ==
    /\ [](ret.op = "close" => done)
    /\ [](closedQuiet => (done /\ DOMAIN items = {}))
    /\ [][done => done']_vars
    /\ [][(~done /\ done') =>
            \E c \in Callers : cpc[c].op = "idle" /\ cpc'[c].op = "close"]_vars
    /\ [][\A c \in Callers : CloseClear(c) => done]_vars
    /\ [][(closedQuiet /\ ~\E c \in Callers : SetStore(c)) => closedQuiet']_vars

\* Close has returned, undisturbed, after removing an item from the store.
C17_Witness ==
    /\ closedQuiet
    /\ ret.op = "close"
    /\ \E key \in Keys : last[key].op = "close" /\ last[key].value # 0

\* C18: Close never waits for the cleaner.  While the process runs, a Close in
\* progress can take its next step whatever the cleaner is doing, and the step
\* by which Close returns leaves the cleaner where it is: in the middle of a
\* pass if that is where it was.
C18_CloseDoesNotWait ==
    /\ [](\A c \in Callers : (Alive /\ cpc[c].op = "close") => ENABLED CloseClear(c))
    /\ [][ret'.op = "close" => UNCHANGED sweeperVars]_vars

\* Close has just returned while the cleaner is in the scan or the delete
\* phase of a pass, and the cleaner has not stopped.
C18_Witness ==
    /\ ret.op = "close"
    /\ spc \in {"range", "delete"}
    /\ Alive

\* C19: a pass never writes past the end of its key list: the scan never finds
\* more keys with deadline < now than the Count() slots of k, so cleanup never
\* panics with an index out of range.
C19_NoIndexPanic ==
    /\ panicked # "index out of range"
    /\ spc \in {"range", "delete"} => i <= Len(k)

\* C20: for every ttl > 0 the deadline a Set computes is after the clock it
\* read: the sum does not wrap around to a value in the past, which a pass
\* reading the same clock would take for expired.
C20_DeadlineAfterNow ==
    [][\A c \in Callers, key \in Keys, ttl \in WideTTLs :
         SetRead(c, key, ttl) =>
             (cpc'[c].deadline > now /\ ~Expired(item(cpc'[c].deadline, cpc'[c].value), now))]_vars

====
